---- MODULE Spec2Model ----
(***************************************************************************)
(* One-way union synchronisation AD -> Google (aws-groups-sync).           *)
(*                                                                         *)
(* The model follows src/src/sync_service.py (the merge engine),           *)
(* src/src/google_directory.py (the paginated reads and the provisioning   *)
(* writes) and the retry decorator of src/src/utils.py that wraps every    *)
(* remote call.  A run is a sequential process; every remote call is one   *)
(* step whose answer the remote directory chooses.                         *)
(*                                                                         *)
(* Strings are sequences of one-character strings, so that strip(),        *)
(* lower(), startswith() and "@" in s are computed as Python computes them.*)
(***************************************************************************)
EXTENDS Naturals, Sequences, FiniteSets, Bags, TLC

(* ------------------------------------------------------------------ *)
(* str methods used by the code                                       *)
(* ------------------------------------------------------------------ *)

\* str.lower(), one character
LowerChar(c) ==
    CASE c = "A" -> "a"
      [] c = "B" -> "b"
      [] c = "C" -> "c"
      [] c = "E" -> "e"
      [] c = "P" -> "p"
      [] c = "X" -> "x"
      [] OTHER -> c

\* str.lower()
Lower(s) == [i \in 1..Len(s) |-> LowerChar(s[i])]

\* str.strip(): leading and trailing whitespace removed
Strip(s) ==
    LET keep == {i \in 1..Len(s) : s[i] # " "}
    IN  IF keep = {} THEN <<>>
        ELSE LET lo == CHOOSE i \in keep : \A j \in keep : i <= j
                 hi == CHOOSE i \in keep : \A j \in keep : j <= i
             IN  SubSeq(s, lo, hi)

\* "@" in s
HasAt(s) == \E i \in 1..Len(s) : s[i] = "@"

\* s.startswith(p)
StartsWith(s, p) == Len(p) <= Len(s) /\ SubSeq(s, 1, Len(p)) = p

\* {x.lower() for x in S}
LowerSet(S) == {Lower(x) : x \in S}

\* the elements of a sequence
Range(f) == {f[i] : i \in 1..Len(f)}

(* ------------------------------------------------------------------ *)
(* sync_service.py: pure parts of the merge engine                     *)
(* ------------------------------------------------------------------ *)

\* the mapping without group_key.strip()
to_group_email_unstripped(key, domain) ==
    IF HasAt(key) THEN Lower(key)
    ELSE Lower(Lower(key) \o <<"@">> \o domain)

to_group_email(key, domain) ==
    LET k == Strip(key)
    IN  IF HasAt(k) THEN Lower(k)
        ELSE Lower(Lower(k) \o <<"@">> \o domain)

\* the normalisation without its filter: entries without "@" are kept
ad_members_unfiltered(ad_members) == {Lower(Strip(m)) : m \in ad_members}

\* {m.strip().lower() for m in ad_members if m and "@" in m}
ad_members_norm(ad_members) ==
    {Lower(Strip(m)) : m \in {x \in ad_members : x # <<>> /\ HasAt(x)}}

\* the members common to both instead of the union
DesiredIntersection(current, norm) == current \cap norm

\* desired_union = current.union(ad_members_norm)
DesiredUnion(current, norm) == current \cup norm

\* the whole union handed on, the members already present included
MissingAll(current, norm) == DesiredUnion(current, norm)

\* the difference taken the wrong way round: current - desired_union
MissingReversed(current, norm) == current \ DesiredUnion(current, norm)

\* missing = desired_union - current
Missing(current, norm) == DesiredUnion(current, norm) \ current

(* ------------------------------------------------------------------ *)
(* Bounds and the universe the inputs are drawn from                   *)
(* ------------------------------------------------------------------ *)

\* at most this many source groups in one run
MaxGroups == 2
\* page size of the remote's list calls (the code asks for 200 per page)
maxResults == 1
\* @retry((HttpError,), tries=5)
Tries == 5

GroupDomain == <<"x">>
Prefixes == {<<>>, <<"p">>}

KeyPE == <<"p", "E">>
KeyE  == <<"E">>
KeyE2 == <<"e", " ">>
Keys  == {KeyPE, KeyE, KeyE2}

MemA  == <<"a", "@", "x">>
MemA2 == <<"A", "@", "x", " ">>
MemB  == <<"b", "@", "x">>
MemC  == <<"c", "@", "x">>
MemN  == <<"n">>
MemEmpty == <<>>
SourceMemberSets == { {MemEmpty, MemN}, {MemA2, MemB, MemN} }

EmailPE == <<"p", "e", "@", "x">>
EmailE  == <<"e", "@", "x">>
RemoteMemberLists == { <<>>, <<MemC, MemA>> }

\* a group and a member whose emails the remote returns with upper case
EmailEU == <<"E", "@", "x">>
MemCU   == <<"C", "@", "x">>

\* the target directories a run may start from: each of the two groups is
\* absent or present with one of the member lists; the second may also be
\* present under the email the remote spells with upper case
InitDirs ==
    LET opt(e, n) == {<<>>} \cup {<<[email |-> e, name |-> n, members |-> ms]>> :
                                  ms \in RemoteMemberLists}
        upper == {<<[email |-> EmailEU, name |-> KeyE, members |-> <<MemCU>>]>>}
    IN  {a \o b : a \in opt(EmailPE, KeyPE), b \in opt(EmailE, KeyE) \cup upper}

\* the source snapshots: a dict (insertion ordered) of at most MaxGroups keys
InitSources ==
    UNION { { s \in [1..n -> [key : Keys, members : SourceMemberSets]] :
                \A i, j \in 1..n : i # j => s[i].key # s[j].key } :
            n \in 1..MaxGroups }

(* ------------------------------------------------------------------ *)
(* The remote directory service (Admin SDK Directory API)              *)
(* ------------------------------------------------------------------ *)

NoToken == 0

\* one page of a list: the items from the position the token names, and the
\* continuation token (absent on the last page)
PageOf(items, token) ==
    LET first == IF token = NoToken THEN 1 ELSE token
        upto  == IF first + maxResults - 1 <= Len(items)
                     THEN first + maxResults - 1 ELSE Len(items)
    IN  [items |-> SubSeq(items, first, upto),
         nextPageToken |-> IF upto < Len(items) THEN upto + 1 ELSE NoToken]

\* number of pages the remote serves a list of n items in
Pages(n) == IF n = 0 THEN 1 ELSE (n + maxResults - 1) \div maxResults

\* groups().list(...)
RemoteGroupsPage(d, token) == PageOf(d, token)

GroupIndex(d, email) == {i \in 1..Len(d) : Lower(d[i].email) = Lower(email)}

\* members().list(groupKey=...)
RemoteMembersPage(d, email, token) ==
    LET i == CHOOSE j \in GroupIndex(d, email) : TRUE
    IN  PageOf(d[i].members, token)

\* the member emails of a group of the directory, as the remote stores them
RemoteMembers(d, email) ==
    UNION {Range(d[i].members) : i \in GroupIndex(d, email)}

(* ------------------------------------------------------------------ *)
(* utils.py: the retry decorator                                       *)
(* ------------------------------------------------------------------ *)

\* what a remote call can answer: "200", an HttpError with its status, or
\* a failure that is no HttpError ("timeout": the http client's timeout)
HttpErrors == {"404", "409", "500"}

\* def retry(exceptions, tries=5, base_delay=0.5, backoff=2.0, max_delay=8.0),
\* the delays in half seconds
BaseDelay == 1
Backoff == 2
MaxDelay == 16

NoFailure == [kind |-> "none", at |-> 0]
NoResult == 0

\* except exceptions: attempt += 1; if attempt >= tries: raise; sleep; again.
\* A failure that is no HttpError is not caught and propagates at once.
RetryOutcome(status, att) ==
    IF status = "200" THEN "return"
    ELSE IF status \in HttpErrors
         THEN IF att + 1 >= Tries THEN "raise" ELSE "retry"
         ELSE "raise"

(* ------------------------------------------------------------------ *)
(* State                                                               *)
(* ------------------------------------------------------------------ *)

VARIABLES
    dir,            \* the target directory: sequence of [email, name, members]
    prefix,         \* SyncService.prefix (<<>>: no filter)
    ad_groups,      \* the source groups: sequence of [key, members]
    rerun,          \* the run in progress follows an earlier run
    pc,             \* where the run stands
    attempt,        \* retry wrapper: failed attempts of the call in progress
    groups,         \* get_all_groups_with_members: the snapshot being built
    next_token,     \* get_all_groups_with_members: groups continuation token
    resp,           \* get_all_groups_with_members: the groups page in hand
    gi,             \* position of the for loop in resp
    g_email,        \* the group whose members are being listed
    m_token,        \* members continuation token
    google_groups,  \* union_update_group_members: the snapshot
    idx,            \* position of the for loop in ad_groups
    group_email,    \* email of the source group in hand
    batch,          \* add_members_bulk: the members it was called with
    bulk,           \* add_members_bulk: the members still to add
    cur,            \* add_members_bulk: the member being added (<<>>: none)
    error,          \* the failure that ended the run
    last,           \* the last remote exchange: [op, status, outcome]
    dir0,           \* history: the directory when the run started
    creates,        \* history: create_group calls of the run, in order
    adds,           \* history: bag of add_member calls <<group, member>>
    addFailed,      \* history: add_member calls that raised into the bulk
    processed,      \* history: positions of ad_groups the loop has entered
    gl_tokens,      \* history: page tokens passed to _groups_list, in order
    ml_groups,      \* history: groups _members_list was called for
    anyFail,        \* history: some remote call has failed, in this run or
                    \* in an earlier one
    nfetch,         \* history: snapshots read in the run
    tries,          \* retry(exceptions, tries, base_delay, backoff, max_delay)
    exceptions,     \* retry: the failure kinds the wrapper catches
    base_delay,     \* retry: first delay, in half seconds
    backoff,        \* retry: multiplier of the delay
    max_delay,      \* retry: cap of a sleep, in half seconds
    delay,          \* retry wrapper: the delay of the next sleep
    w_pc,           \* retry wrapper: "idle", "call", "returned" or "raised"
    calls,          \* history: invocations of the wrapped function
    outcomes,       \* history: what each invocation did ("ok" or failure kind)
    sleeps,         \* history: the time.sleep calls of the wrapper, in order
    result,         \* what the wrapper returned (the value of an invocation)
    raised,         \* the failure the wrapper propagated
    group_key,      \* to_group_email: the key it is called with
    group_domain    \* to_group_email: the domain it is called with

\* the variables of the synchronisation run, the wrapper's attempt apart
runVars == <<dir, prefix, ad_groups, rerun, pc, groups, next_token, resp,
             gi, g_email, m_token, google_groups, idx, group_email, batch,
             bulk, cur, error, last, dir0, creates, adds, addFailed, processed,
             gl_tokens, ml_groups, anyFail, nfetch>>

\* the parameters of the decorator and the wrapper's own state and history
retryVars == <<tries, exceptions, base_delay, backoff, max_delay, delay, w_pc,
               calls, outcomes, sleeps, result, raised>>

\* the arguments of to_group_email
emailVars == <<group_key, group_domain>>

vars == <<runVars, attempt, retryVars, emailVars>>

envVars   == <<prefix, ad_groups>>
fetchVars == <<groups, next_token, resp, gi, g_email, m_token, gl_tokens,
               ml_groups, nfetch>>
mergeVars == <<google_groups, idx, group_email, batch, bulk, cur, creates,
               adds, addFailed, processed>>

NoError == [op |-> "none", status |-> "none"]
NoLast  == [op |-> "none", status |-> "none", outcome |-> "none",
            arg |-> <<>>]
NoResp  == [items |-> <<>>, nextPageToken |-> NoToken]
EmptyDict == [e \in {} |-> {}]

Init ==
    /\ dir \in InitDirs
    /\ prefix \in Prefixes
    /\ ad_groups \in InitSources
    /\ rerun = FALSE
    /\ pc = "start"
    /\ attempt = 0
    /\ groups = EmptyDict
    /\ next_token = NoToken
    /\ resp = NoResp
    /\ gi = 1
    /\ g_email = <<>>
    /\ m_token = NoToken
    /\ google_groups = EmptyDict
    /\ idx = 1
    /\ group_email = <<>>
    /\ batch = {}
    /\ bulk = {}
    /\ cur = <<>>
    /\ error = NoError
    /\ last = NoLast
    /\ dir0 = dir
    /\ creates = <<>>
    /\ adds = EmptyBag
    /\ addFailed = {}
    /\ processed = {}
    /\ gl_tokens = <<>>
    /\ ml_groups = {}
    /\ anyFail = FALSE
    /\ nfetch = 0
    /\ tries = Tries
    /\ exceptions = HttpErrors
    /\ base_delay = BaseDelay
    /\ backoff = Backoff
    /\ max_delay = MaxDelay
    /\ delay = BaseDelay
    /\ w_pc = "idle"
    /\ calls = 0
    /\ outcomes = <<>>
    /\ sleeps = <<>>
    /\ result = NoResult
    /\ raised = NoFailure
    /\ group_key = <<>>
    /\ group_domain = GroupDomain

\* the run ends with the failure propagating out of union_update_group_members
Raise(op, status) ==
    /\ pc' = "failed"
    /\ error' = [op |-> op, status |-> status]

\* one remote exchange under the retry wrapper: what the remote answered to
\* which attempt, and what the wrapper did with it
Exchange(op, status, arg) ==
    /\ last' = [op |-> op, status |-> status,
                outcome |-> RetryOutcome(status, attempt), arg |-> arg]
    /\ anyFail' = (anyFail \/ status # "200")

(* ------------------------------------------------------------------ *)
(* google_directory.py: get_all_groups_with_members                    *)
(* ------------------------------------------------------------------ *)

\* union_update_group_members enters fetch_google_state, which enters
\* get_all_groups_with_members and issues the first _groups_list call
StartRun ==
    /\ pc = "start"
    /\ groups' = EmptyDict
    /\ next_token' = NoToken
    /\ gl_tokens' = Append(gl_tokens, NoToken)
    /\ nfetch' = nfetch + 1
    /\ attempt' = 0
    /\ pc' = "groups_list"
    /\ UNCHANGED <<dir, envVars, rerun, resp, gi, g_email, m_token, ml_groups,
                   mergeVars, error, last, dir0, anyFail, retryVars, emailVars>>

\* the continuation token dropped: the next call starts over without one
NextTokenDropped(r) == NoToken

\* next_token = resp.get("nextPageToken")
NextTokenOf(r) == r.nextPageToken

\* one attempt of _groups_list(page_token=next_token) under the retry wrapper
GroupsListFails(status) ==
    /\ Exchange("groups_list", status, <<>>)
    /\ IF RetryOutcome(status, attempt) = "retry"
       THEN /\ attempt' = attempt + 1
            /\ UNCHANGED <<pc, error>>
       ELSE /\ attempt' = 0
            /\ Raise("groups_list", status)
    /\ UNCHANGED <<dir, envVars, rerun, fetchVars, mergeVars, dir0>>

GroupsList ==
    /\ pc = "groups_list"
    /\ UNCHANGED <<retryVars, emailVars>>
    /\ \/ /\ Exchange("groups_list", "200", <<>>)
          /\ resp' = RemoteGroupsPage(dir, next_token)
          /\ gi' = 1
          /\ attempt' = 0
          /\ pc' = "scan"
          /\ UNCHANGED <<dir, envVars, rerun, groups, next_token, g_email,
                         m_token, gl_tokens, ml_groups, nfetch, mergeVars,
                         error, dir0>>
       \/ GroupsListFails("500")
       \/ GroupsListFails("timeout")

\* the filter without its prefix test: only groups without email are skipped
FilteredByEmailOnly(g, pfx) == g.email = <<>>

\* if prefix and not g_name.startswith(prefix): continue
\* if not g_email: continue
Filtered(g, pfx) ==
    \/ pfx # <<>> /\ ~StartsWith(g.name, pfx)
    \/ g.email = <<>>

\* the for loop over the groups of the page in hand, up to the next remote call
Scan ==
    /\ pc = "scan"
    /\ IF gi > Len(resp.items)
       THEN /\ next_token' = NextTokenOf(resp)
            /\ IF next_token' = NoToken
               THEN \* return groups; the merge loop starts
                    /\ google_groups' = groups
                    /\ idx' = 1
                    /\ pc' = "loop"
                    /\ UNCHANGED gl_tokens
               ELSE /\ pc' = "groups_list"
                    /\ gl_tokens' = Append(gl_tokens, next_token')
                    /\ UNCHANGED <<google_groups, idx>>
            /\ UNCHANGED <<groups, gi, g_email, m_token, ml_groups>>
       ELSE LET g == resp.items[gi]
            IN  IF Filtered(g, prefix)
                THEN /\ gi' = gi + 1
                     /\ UNCHANGED <<groups, g_email, m_token, ml_groups, pc,
                                    next_token, gl_tokens, google_groups, idx>>
                ELSE /\ groups' = (g.email :> {}) @@ groups
                     /\ g_email' = g.email
                     /\ m_token' = NoToken
                     /\ ml_groups' = ml_groups \cup {g.email}
                     /\ pc' = "members_list"
                     /\ UNCHANGED <<gi, next_token, gl_tokens, google_groups,
                                    idx>>
    /\ attempt' = 0
    /\ UNCHANGED <<dir, envVars, rerun, resp, nfetch, group_email, batch, bulk,
                   cur, creates, adds, addFailed, processed, error, last, dir0,
                   anyFail, retryVars, emailVars>>

\* every HttpError of the members call taken for "no members"
MembersListSwallow(status) == "break"

\* except HttpError as e: if e.resp.status == 404: break; else raise
MembersListOnError(status) == IF status = "404" THEN "break" ELSE "raise"

\* one failed attempt of _members_list(g_email, m_token) under the wrapper
MembersListFails(status) ==
    /\ Exchange("members_list", status, g_email)
    /\ IF RetryOutcome(status, attempt) = "retry"
       THEN /\ attempt' = attempt + 1
            /\ UNCHANGED <<pc, error, gi>>
       ELSE /\ attempt' = 0
            /\ IF status \in HttpErrors /\ MembersListOnError(status) = "break"
               THEN /\ gi' = gi + 1
                    /\ pc' = "scan"
                    /\ UNCHANGED error
               ELSE /\ Raise("members_list", status)
                    /\ UNCHANGED gi
    /\ UNCHANGED <<dir, envVars, rerun, groups, next_token, resp, g_email,
                   m_token, gl_tokens, ml_groups, nfetch, mergeVars, dir0>>

\* groups[g_email].add(m_email.lower()) for every member that has an email
PageEmails(items) == {Lower(m) : m \in {x \in Range(items) : x # <<>>}}

MembersList ==
    /\ pc = "members_list"
    /\ UNCHANGED <<retryVars, emailVars>>
    /\ \/ LET m_resp == RemoteMembersPage(dir, g_email, m_token)
          IN  /\ Exchange("members_list", "200", g_email)
              /\ groups' = [groups EXCEPT
                              ![g_email] = @ \cup PageEmails(m_resp.items)]
              /\ m_token' = NextTokenOf(m_resp)
              /\ IF m_token' = NoToken
                 THEN gi' = gi + 1 /\ pc' = "scan"
                 ELSE UNCHANGED <<gi, pc>>
              /\ attempt' = 0
              /\ UNCHANGED <<dir, envVars, rerun, next_token, resp, g_email,
                             gl_tokens, ml_groups, nfetch, mergeVars, error,
                             dir0>>
       \/ MembersListFails("404")
       \/ MembersListFails("500")
       \/ MembersListFails("timeout")

(* ------------------------------------------------------------------ *)
(* The remote's writes                                                 *)
(* ------------------------------------------------------------------ *)

HasGroup(d, email) == GroupIndex(d, email) # {}

HasMember(d, email, m) == Lower(m) \in LowerSet(RemoteMembers(d, email))

\* groups().insert(body={email, name, description})
RemoteInsertGroup(d, email, name) ==
    Append(d, [email |-> email, name |-> name, members |-> <<>>])

\* a write that replaces the membership by the one member instead of adding
RemoteReplaceMembers(d, email, m) ==
    [i \in 1..Len(d) |->
        IF i \in GroupIndex(d, email)
        THEN [d[i] EXCEPT !.members = <<m>>]
        ELSE d[i]]

\* members().insert(groupKey=group_email, body={email, role})
RemoteInsertMember(d, email, m) ==
    [i \in 1..Len(d) |->
        IF i \in GroupIndex(d, email)
        THEN [d[i] EXCEPT !.members = Append(@, m)]
        ELSE d[i]]

(* ------------------------------------------------------------------ *)
(* sync_service.py: union_update_group_members, the merge loop         *)
(* ------------------------------------------------------------------ *)

\* the loop's next iteration, or the end of the run
NextGroup ==
    /\ idx' = idx + 1
    /\ pc' = "loop"

\* for ad_group_key, ad_members in ad_groups.items(): up to the remote call
Loop ==
    /\ pc = "loop"
    /\ IF idx > Len(ad_groups)
       THEN /\ pc' = "done"
            /\ UNCHANGED <<idx, group_email, batch, bulk, creates, processed>>
       ELSE LET key  == ad_groups[idx].key
                e    == to_group_email(key, GroupDomain)
                norm == ad_members_norm(ad_groups[idx].members)
            IN  /\ group_email' = e
                /\ processed' = processed \cup {idx}
                /\ IF e \notin DOMAIN google_groups
                   THEN /\ pc' = "create_group"
                        /\ creates' = Append(creates,
                                             [email |-> e, name |-> key])
                        /\ batch' = {}
                        /\ bulk' = {}
                        /\ UNCHANGED idx
                   ELSE LET current == google_groups[e]
                            missing == Missing(current, norm)
                        IN  /\ IF missing = {}
                               THEN /\ NextGroup
                                    /\ batch' = {}
                                    /\ bulk' = {}
                               ELSE /\ batch' = missing
                                    /\ bulk' = missing
                                    /\ pc' = "add_member"
                                    /\ UNCHANGED idx
                            /\ UNCHANGED creates
    /\ attempt' = 0
    /\ UNCHANGED <<dir, envVars, rerun, fetchVars, google_groups, cur, adds,
                   addFailed, error, last, dir0, anyFail, retryVars, emailVars>>

\* one failed attempt of create_group under the retry wrapper; the failure
\* that leaves the wrapper is not caught by union_update_group_members
CreateGroupFails(status) ==
    /\ Exchange("create_group", status, group_email)
    /\ IF RetryOutcome(status, attempt) = "retry"
       THEN /\ attempt' = attempt + 1
            /\ UNCHANGED <<pc, error>>
       ELSE /\ attempt' = 0
            /\ Raise("create_group", status)
    /\ UNCHANGED <<dir, envVars, rerun, fetchVars, mergeVars, dir0>>

CreateGroup ==
    /\ pc = "create_group"
    /\ UNCHANGED <<retryVars, emailVars>>
    /\ \/ /\ ~HasGroup(dir, group_email)
          /\ Exchange("create_group", "200", group_email)
          /\ dir' = RemoteInsertGroup(dir, group_email, ad_groups[idx].key)
          /\ LET norm == ad_members_norm(ad_groups[idx].members)
             IN  IF norm # {}
                 THEN /\ batch' = norm
                      /\ bulk' = norm
                      /\ pc' = "add_member"
                      /\ UNCHANGED idx
                 ELSE NextGroup /\ UNCHANGED <<batch, bulk>>
          /\ attempt' = 0
          /\ UNCHANGED <<envVars, rerun, fetchVars, google_groups, group_email,
                         cur, creates, adds, addFailed, processed, error,
                         dir0>>
       \/ HasGroup(dir, group_email) /\ CreateGroupFails("409")
       \/ CreateGroupFails("500")
       \/ CreateGroupFails("timeout")

\* add_member without its 409 branch: every HttpError is raised again
AddMemberNo409(status) == "raise"

\* add_member: except HttpError as e: if e.resp.status == 409: return None
AddMemberOnError(status) == IF status = "409" THEN "skipped" ELSE "raise"

\* add_members_bulk goes on with the next member, or returns to the loop
BulkNext(m) ==
    /\ bulk' = bulk \ {m}
    /\ cur' = <<>>
    /\ attempt' = 0
    /\ IF bulk' = {} THEN NextGroup ELSE UNCHANGED <<pc, idx>>

\* add_members_bulk: except HttpError: log and continue
BulkOnError(status) == IF status \in HttpErrors THEN "continue" ELSE "raise"

\* the bag of add_member calls: one more call when the wrapper is entered
Called(m) ==
    IF attempt = 0 THEN adds (+) SetToBag({<<group_email, m>>}) ELSE adds

\* one attempt of add_member(group_email, m) that the remote fails
AddMemberFails(m, status) ==
    /\ adds' = Called(m)
    /\ IF status \in HttpErrors /\ AddMemberOnError(status) = "skipped"
       THEN \* caught inside add_member: returns None, nothing to retry
            /\ last' = [op |-> "add_member", status |-> status,
                        outcome |-> "skipped",
                        arg |-> <<group_email, m>>]
            /\ anyFail' = TRUE
            /\ BulkNext(m)
            /\ UNCHANGED <<addFailed, error>>
       ELSE /\ Exchange("add_member", status, <<group_email, m>>)
            /\ IF RetryOutcome(status, attempt) = "retry"
               THEN /\ attempt' = attempt + 1
                    /\ cur' = m
                    /\ UNCHANGED <<bulk, pc, idx, addFailed, error>>
               ELSE IF BulkOnError(status) = "continue"
                    THEN /\ addFailed' = addFailed \cup {<<group_email, m>>}
                         /\ BulkNext(m)
                         /\ UNCHANGED error
                    ELSE /\ Raise("add_member", status)
                         /\ attempt' = 0
                         /\ UNCHANGED <<bulk, cur, idx, addFailed>>
    /\ UNCHANGED <<dir, envVars, rerun, fetchVars, google_groups, group_email,
                   batch, creates, processed, dir0>>

\* for m in members: self.add_member(group_email, m)
AddMember ==
    /\ pc = "add_member"
    /\ UNCHANGED <<retryVars, emailVars>>
    /\ \E m \in (IF cur = <<>> THEN bulk ELSE {cur}) :
        \/ /\ ~HasMember(dir, group_email, m)
           /\ Exchange("add_member", "200", <<group_email, m>>)
           /\ dir' = RemoteInsertMember(dir, group_email, m)
           /\ adds' = Called(m)
           /\ BulkNext(m)
           /\ UNCHANGED <<envVars, rerun, fetchVars, google_groups, group_email,
                          batch, creates, addFailed, processed, error, dir0>>
        \/ HasMember(dir, group_email, m) /\ AddMemberFails(m, "409")
        \/ AddMemberFails(m, "500")
        \/ AddMemberFails(m, "timeout")

\* the next run of the program: main() is started again, with the same
\* configuration and source groups, after the run has returned or failed
Rerun ==
    /\ pc \in {"done", "failed"}
    /\ rerun' = TRUE
    /\ error' = NoError
    /\ pc' = "start"
    /\ dir0' = dir
    /\ attempt' = 0
    /\ groups' = EmptyDict
    /\ next_token' = NoToken
    /\ resp' = NoResp
    /\ gi' = 1
    /\ g_email' = <<>>
    /\ m_token' = NoToken
    /\ google_groups' = EmptyDict
    /\ idx' = 1
    /\ group_email' = <<>>
    /\ batch' = {}
    /\ bulk' = {}
    /\ cur' = <<>>
    /\ last' = NoLast
    /\ creates' = <<>>
    /\ adds' = EmptyBag
    /\ addFailed' = {}
    /\ processed' = {}
    /\ gl_tokens' = <<>>
    /\ ml_groups' = {}
    /\ nfetch' = 0
    /\ UNCHANGED <<dir, envVars, anyFail, retryVars, emailVars>>

Next ==
    \/ StartRun
    \/ GroupsList
    \/ Scan
    \/ MembersList
    \/ Loop
    \/ CreateGroup
    \/ AddMember
    \/ Rerun

Spec == Init /\ [][Next]_vars

\* def union_update_group_members(self, ad_groups) -> None: the method has no
\* return statement, and add_members_bulk -> None hands it nothing
ReturnValue == "None"

(* ------------------------------------------------------------------ *)
(* utils.py: the retry decorator on its own, for any parameters        *)
(* ------------------------------------------------------------------ *)

\* the largest tries the wrapper is run with
MaxTries == 5

TriesValues     == 0..MaxTries
ExceptionSets   == {HttpErrors, {}}
BaseDelays      == {BaseDelay, 3}
Backoffs        == {1, Backoff, 3}
MaxDelays       == {2, MaxDelay}

\* what one invocation of the wrapped function can do besides returning
FailureKinds == {"500", "timeout"}

RetryInit ==
    /\ dir = <<>>
    /\ prefix = <<>>
    /\ ad_groups = <<>>
    /\ rerun = FALSE
    /\ pc = "wrapper"
    /\ groups = EmptyDict
    /\ next_token = NoToken
    /\ resp = NoResp
    /\ gi = 1
    /\ g_email = <<>>
    /\ m_token = NoToken
    /\ google_groups = EmptyDict
    /\ idx = 1
    /\ group_email = <<>>
    /\ batch = {}
    /\ bulk = {}
    /\ cur = <<>>
    /\ error = NoError
    /\ last = NoLast
    /\ dir0 = <<>>
    /\ creates = <<>>
    /\ adds = EmptyBag
    /\ addFailed = {}
    /\ processed = {}
    /\ gl_tokens = <<>>
    /\ ml_groups = {}
    /\ anyFail = FALSE
    /\ nfetch = 0
    /\ tries \in TriesValues
    /\ exceptions \in ExceptionSets
    /\ base_delay \in BaseDelays
    /\ backoff \in Backoffs
    /\ max_delay \in MaxDelays
    /\ attempt = 0
    /\ delay = 0
    /\ w_pc = "idle"
    /\ calls = 0
    /\ outcomes = <<>>
    /\ sleeps = <<>>
    /\ result = NoResult
    /\ raised = NoFailure
    /\ group_key = <<>>
    /\ group_domain = GroupDomain

\* wrapper(*args, **kwargs): attempt = 0; delay = base_delay
WrapperEnter ==
    /\ w_pc = "idle"
    /\ attempt' = 0
    /\ delay' = base_delay
    /\ w_pc' = "call"
    /\ UNCHANGED <<runVars, tries, exceptions, base_delay, backoff, max_delay,
                   calls, outcomes, sleeps, result, raised, emailVars>>

\* every failure taken for a matching one
MatchesAny(kind, excs) == TRUE

\* except exceptions:
Matches(kind, excs) == kind \in excs

\* the test one attempt late: attempt > tries
ExhaustedLate(att, n) == att > n

\* if attempt >= tries: raise
Exhausted(att, n) == att >= n

\* the sleep without its cap
SleepUncapped(d, cap) == d

\* time.sleep(min(delay, max_delay))
SleepFor(d, cap) == IF d <= cap THEN d ELSE cap

\* one pass of the while True loop: func is invoked and returns or fails
WrapperAttempt ==
    /\ w_pc = "call"
    /\ calls' = calls + 1
    /\ \/ \* return func(*args, **kwargs)
          /\ outcomes' = Append(outcomes, "ok")
          /\ result' = calls + 1
          /\ w_pc' = "returned"
          /\ UNCHANGED <<attempt, delay, sleeps, raised>>
       \/ \E kind \in FailureKinds :
            /\ outcomes' = Append(outcomes, kind)
            /\ UNCHANGED result
            /\ IF Matches(kind, exceptions)
               THEN /\ attempt' = attempt + 1
                    /\ IF Exhausted(attempt', tries)
                       THEN /\ raised' = [kind |-> kind, at |-> calls + 1]
                            /\ w_pc' = "raised"
                            /\ UNCHANGED <<delay, sleeps>>
                       ELSE /\ sleeps' = Append(sleeps,
                                                SleepFor(delay, max_delay))
                            /\ delay' = delay * backoff
                            /\ UNCHANGED <<w_pc, raised>>
               ELSE /\ raised' = [kind |-> kind, at |-> calls + 1]
                    /\ w_pc' = "raised"
                    /\ UNCHANGED <<attempt, delay, sleeps>>
    /\ UNCHANGED <<runVars, tries, exceptions, base_delay, backoff, max_delay,
                   emailVars>>

RetryNext ==
    \/ WrapperEnter
    \/ WrapperAttempt

RetrySpec == RetryInit /\ [][RetryNext]_vars

(* ------------------------------------------------------------------ *)
(* sync_service.py: to_group_email on its own, for any key and domain  *)
(* ------------------------------------------------------------------ *)

\* the longest group key
MaxKeyLen == 3

KeyChars == {"A", "b", "@", " "}

\* the group keys: every string of at most MaxKeyLen characters
GroupKeys == UNION {[1..n -> KeyChars] : n \in 0..MaxKeyLen}

\* the configured group domains (GOOGLE_GROUP_DOMAIN)
GroupDomains == {GroupDomain, <<"X">>, <<"b", "X">>}

EmailInit ==
    /\ dir = <<>>
    /\ prefix = <<>>
    /\ ad_groups = <<>>
    /\ rerun = FALSE
    /\ pc = "to_group_email"
    /\ groups = EmptyDict
    /\ next_token = NoToken
    /\ resp = NoResp
    /\ gi = 1
    /\ g_email = <<>>
    /\ m_token = NoToken
    /\ google_groups = EmptyDict
    /\ idx = 1
    /\ group_email = <<>>
    /\ batch = {}
    /\ bulk = {}
    /\ cur = <<>>
    /\ error = NoError
    /\ last = NoLast
    /\ dir0 = <<>>
    /\ creates = <<>>
    /\ adds = EmptyBag
    /\ addFailed = {}
    /\ processed = {}
    /\ gl_tokens = <<>>
    /\ ml_groups = {}
    /\ anyFail = FALSE
    /\ nfetch = 0
    /\ tries = Tries
    /\ exceptions = HttpErrors
    /\ base_delay = BaseDelay
    /\ backoff = Backoff
    /\ max_delay = MaxDelay
    /\ attempt = 0
    /\ delay = BaseDelay
    /\ w_pc = "idle"
    /\ calls = 0
    /\ outcomes = <<>>
    /\ sleeps = <<>>
    /\ result = NoResult
    /\ raised = NoFailure
    /\ group_key \in GroupKeys
    /\ group_domain \in GroupDomains

\* group_email = to_group_email(ad_group_key, self.group_domain)
MapKey ==
    /\ pc = "to_group_email"
    /\ group_email' = to_group_email(group_key, group_domain)
    /\ pc' = "mapped"
    /\ UNCHANGED <<dir, prefix, ad_groups, rerun, groups, next_token, resp, gi,
                   g_email, m_token, google_groups, idx, batch, bulk, cur,
                   error, last, dir0, creates, adds, addFailed, processed,
                   gl_tokens, ml_groups, anyFail, nfetch, attempt, retryVars,
                   emailVars>>

EmailNext == MapKey

EmailSpec == EmailInit /\ [][EmailNext]_vars

(* ------------------------------------------------------------------ *)
(* Vocabulary of the properties                                        *)
(* ------------------------------------------------------------------ *)

FetchStates == {"start", "groups_list", "scan", "members_list"}

NoWrites == creates = <<>> /\ adds = EmptyBag

\* get_all_groups_with_members has just returned the snapshot
FetchReturned == pc = "loop" /\ idx = 1 /\ processed = {}

\* the positions of ad_groups whose key maps to group email e
SrcKeysFor(e) ==
    {i \in 1..Len(ad_groups) :
        to_group_email(ad_groups[i].key, GroupDomain) = e}

\* the normalized source members of the keys mapping to e
Desired(e) ==
    UNION {ad_members_norm(ad_groups[i].members) : i \in SrcKeysFor(e)}

\* the member set of target group e, now and when the run started
Target(e) == LowerSet(RemoteMembers(dir, e))
Before(e) == LowerSet(RemoteMembers(dir0, e))

\* the groups present in both the source and the snapshot
InBoth == {e \in DOMAIN google_groups : SrcKeysFor(e) # {}}

\* the remote groups that pass the filter of get_all_groups_with_members
Listed(d) == {d[i].email : i \in {j \in 1..Len(d) : ~Filtered(d[j], prefix)}}

(* ------------------------------------------------------------------ *)
(* C1 .. C10                                                           *)
(* ------------------------------------------------------------------ *)

\* C1: when create_group fails for one source group, only that group is
\* skipped: the run that ends there has processed every source group.
C1_OtherGroupsProcessed ==
    (pc = "failed" /\ error.op = "create_group")
        => processed = 1..Len(ad_groups)

\* C2: a second run after a first run, no remote call of either having failed,
\* with the same source groups, domain and prefix and nobody else writing to
\* the directory, issues no create_group and no add_member call.
C2_SecondRunNoWrites ==
    (rerun /\ ~anyFail) => NoWrites

\* C3 as stated: after the run returns, every group present in both the source
\* and the snapshot has the member set current \cup normalized(source members)
\* (here even with the source members of all the keys mapping to the group,
\* and only for a group whose members the snapshot lists completely).
C3_Original ==
    pc = "done" =>
        \A e \in InBoth :
            google_groups[e] = Before(e)
                => Target(e) = google_groups[e] \cup Desired(e)

\* C3 amended: after the run returns, the member set of a group present in
\* both contains current and every normalized source member whose add_member
\* call did not fail, holds nothing but its members before the run and the
\* normalized source members, and equals current \cup normalized(source
\* members) when no add_member call for the group failed and the snapshot
\* listed all of its members.
C3_UnionOnReturn ==
    pc = "done" =>
        \A e \in InBoth :
            LET failed == {m \in Desired(e) : <<e, m>> \in addFailed}
            IN  /\ google_groups[e] \subseteq Target(e)
                /\ (Desired(e) \ failed) \subseteq Target(e)
                /\ Target(e) \subseteq Before(e) \cup Desired(e)
                /\ (failed = {} /\ google_groups[e] = Before(e))
                       => Target(e) = google_groups[e] \cup Desired(e)

\* C3 witness: a run has returned in which, for a group present in both, one
\* add_member call failed and another member was added.
C3_Witness ==
    /\ pc = "done"
    /\ \E e \in InBoth :
          /\ \E m \in Desired(e) : <<e, m>> \in addFailed
          /\ Target(e) # google_groups[e]
          /\ Target(e) # google_groups[e] \cup Desired(e)

\* C4: in every step, also of a run with failing remote calls, every target
\* group stays and its member set grows or stays the same.
C4_NoRemoval ==
    [][\A i \in 1..Len(dir) :
          /\ i <= Len(dir')
          /\ dir'[i].email = dir[i].email
          /\ Range(dir[i].members) \subseteq Range(dir'[i].members)]_vars

\* C4 witness: a group that had members when the run started has been given
\* another one and has kept the old ones.
C4_Witness ==
    \E i \in 1..Len(dir0) :
        /\ dir0[i].members # <<>>
        /\ Range(dir0[i].members) \subseteq Range(dir[i].members)
        /\ Range(dir[i].members) # Range(dir0[i].members)

\* C5: a create_group call the remote answers with "already exists" (409)
\* surfaces no error to the merge engine: it never ends the run.
C5_ConflictAbsorbed ==
    ~(pc = "failed" /\ error.op = "create_group" /\ error.status = "409")

\* C6: add_member returns the skipped indicator, without raising or retrying,
\* exactly when the remote answers 409; any other failure is raised to the
\* caller, an HttpError only after the Tries-th attempt, and then reaches
\* add_members_bulk (which records it) or ends the run.
C6_AddMemberConflict ==
    /\ [](last.op = "add_member" =>
            /\ last.status = "409" <=> last.outcome = "skipped"
            /\ last.status \notin {"200", "409"}
                  => last.outcome \in {"retry", "raise"}
            /\ (last.status \in HttpErrors /\ last.outcome = "raise")
                  => last.arg \in addFailed
            /\ last.status = "timeout"
                  => /\ last.outcome = "raise"
                     /\ pc = "failed"
                     /\ error = [op |-> "add_member", status |-> "timeout"])
    /\ [][pc = "add_member" =>
            /\ (last'.status = "409" /\ last' # last)
                  => /\ bulk' = bulk \ {last'.arg[2]}
                     /\ addFailed' = addFailed
                     /\ pc' # "failed"
            /\ last'.outcome = "retry" => attempt' = attempt + 1
            /\ attempt' = attempt + 1 => attempt' < Tries
            /\ addFailed' # addFailed => attempt + 1 = Tries]_vars

\* C6 witness: the remote answered 409 to an add_member call, which returned
\* the skipped indicator, and the bulk went on.
C6_Witness ==
    /\ last.op = "add_member"
    /\ last.status = "409"
    /\ last.outcome = "skipped"
    /\ pc # "failed"

\* C7: add_members_bulk does not raise when add_member fails for a member,
\* and when it returns add_member has been called for every member of the
\* batch.
C7_BulkTolerant ==
    /\ pc = "failed" => error.op # "add_member"
    /\ (pc \in {"loop", "done"} /\ batch # {})
          => \A m \in batch : BagIn(<<group_email, m>>, adds)

\* C8: when no call fails, the snapshot is returned after exactly K
\* list-groups calls, K the number of pages of the remote's groups, the first
\* without a token and each other with the token the previous page carried,
\* and its keys are the groups of all pages that pass the filter, once each.
C8_PaginationComplete ==
    (FetchReturned /\ ~anyFail) =>
        /\ Len(gl_tokens) = Pages(Len(dir))
        /\ gl_tokens[1] = NoToken
        /\ \A k \in 2..Len(gl_tokens) :
              gl_tokens[k] = RemoteGroupsPage(dir, gl_tokens[k-1]).nextPageToken
        /\ DOMAIN google_groups = Listed(dir)
        /\ Cardinality(DOMAIN google_groups)
              = Cardinality({j \in 1..Len(dir) : ~Filtered(dir[j], prefix)})

\* C8 witness: a snapshot of two groups read from two pages, no call failing.
C8_Witness ==
    /\ FetchReturned
    /\ ~anyFail
    /\ Len(gl_tokens) >= 2
    /\ Cardinality(DOMAIN google_groups) >= 2

\* C9: a returned snapshot never holds a partial member list: every group of
\* it has all the members of the group (or, after not-found, none).
C9_NoPartialMembers ==
    FetchReturned =>
        \A e \in DOMAIN google_groups :
            \/ google_groups[e] = {}
            \/ google_groups[e] = LowerSet(RemoteMembers(dir, e))

\* C10: the snapshot is read once, before any write; a list-groups failure,
\* or a list-members failure other than not-found, that leaves the retry
\* wrapper ends the run with that failure and no write has been issued.
C10_ReadsFatalAndFirst ==
    /\ nfetch <= 1
    /\ pc \notin {"start"} => nfetch = 1
    /\ pc \in FetchStates => NoWrites
    /\ (last.op = "groups_list" /\ last.outcome = "raise")
          => /\ pc = "failed"
             /\ error = [op |-> "groups_list", status |-> last.status]
    /\ (last.op = "members_list" /\ last.outcome = "raise"
            /\ last.status # "404")
          => /\ pc = "failed"
             /\ error = [op |-> "members_list", status |-> last.status]
    /\ (pc = "failed" /\ error.op \in {"groups_list", "members_list"})
          => NoWrites

\* C10 witness: the members call failed with a server error on each of the
\* Tries attempts and the run has ended with that failure.
C10_Witness ==
    /\ pc = "failed"
    /\ error = [op |-> "members_list", status |-> "500"]
    /\ last.outcome = "raise"
    /\ NoWrites

(* ------------------------------------------------------------------ *)
(* C11 .. C20                                                          *)
(* ------------------------------------------------------------------ *)

\* the invocations of the wrapped function that failed with a caught kind
MatchingFailures == {i \in 1..Len(outcomes) : outcomes[i] \in exceptions}

\* C11: a wrapped operation failing with a matching failure on every attempt
\* is invoked exactly tries times (tries >= 1), the wrapper sleeps tries - 1
\* times and propagates the failure of the tries-th attempt unchanged; an
\* attempt that succeeds has its result returned and is the last attempt.
C11_AttemptBound ==
    /\ (w_pc = "raised" /\ tries >= 1 /\ raised.kind \in exceptions)
          => /\ calls = tries
             /\ MatchingFailures = 1..tries
             /\ Len(sleeps) = tries - 1
             /\ raised = [kind |-> outcomes[tries], at |-> tries]
    /\ (w_pc = "call" /\ tries >= 1) => calls < tries
    /\ \A i \in 1..Len(outcomes) :
          outcomes[i] = "ok" => /\ i = calls
                                /\ w_pc = "returned"
                                /\ result = i
                                /\ MatchingFailures = 1..(i - 1)
    /\ w_pc = "returned" => (calls >= 1 /\ outcomes[calls] = "ok")
    /\ Len(outcomes) = calls

\* C11 witness: with tries >= 3 every attempt failed with a matching failure
\* and the wrapper has propagated the last one.
C11_Witness ==
    /\ w_pc = "raised"
    /\ tries >= 3
    /\ calls = tries
    /\ raised.kind \in exceptions
    /\ Len(sleeps) = tries - 1

\* C12: a failure of a kind that is not retryable leaves the wrapper at once:
\* the invocation that raised it is the last, no sleep follows it, and it is
\* the failure propagated; raised by the first invocation, the operation has
\* been invoked exactly once and the wrapper has not slept.
C12_NonMatchingImmediate ==
    /\ \A i \in 1..Len(outcomes) :
          (outcomes[i] # "ok" /\ outcomes[i] \notin exceptions)
              => /\ i = calls
                 /\ w_pc = "raised"
                 /\ raised = [kind |-> outcomes[i], at |-> i]
                 /\ Len(sleeps) = i - 1
                 /\ attempt = i - 1
    /\ (Len(outcomes) >= 1 /\ outcomes[1] # "ok"
            /\ outcomes[1] \notin exceptions)
          => (calls = 1 /\ sleeps = <<>> /\ w_pc = "raised")

\* C12 witness: the first invocation failed with a timeout, which the wrapper
\* retrying HttpError does not catch, and tries would have allowed more.
C12_Witness ==
    /\ w_pc = "raised"
    /\ exceptions = HttpErrors
    /\ tries >= 2
    /\ raised = [kind |-> "timeout", at |-> 1]
    /\ calls = 1
    /\ sleeps = <<>>

\* s contains "@"
ContainsAt(s) == \E i \in 1..Len(s) : s[i] = "@"

UpperChars == {"A", "B", "C", "E", "P", "X"}

\* C14: the group email computed from a source group key (and then passed to
\* create_group or add_members_bulk) is all lower-case and contains exactly
\* one "@", for every key and every configured domain.
C14_CanonicalEmail ==
    pc = "mapped" =>
        /\ \A i \in 1..Len(group_email) : group_email[i] \notin UpperChars
        /\ Cardinality({i \in 1..Len(group_email) : group_email[i] = "@"}) = 1

\* the email of the source group at position i of ad_groups
EmailOf(i) == to_group_email(ad_groups[i].key, GroupDomain)

\* its members trimmed and lower-cased, the entries without "@" dropped
NormalizedSource(i) ==
    {Lower(Strip(m)) : m \in {x \in ad_groups[i].members : ContainsAt(x)}}

\* C15: for a source group whose email is in the snapshot, the loop issues no
\* create_group; when its normalized members are all in the snapshot's member
\* set it issues no add_member either and goes on to the next group; otherwise
\* add_members_bulk is entered, once, with exactly the missing members.
C15_NoOpOrExactMissing ==
    /\ [](pc = "add_member" /\ group_email \in DOMAIN google_groups
            => /\ batch = NormalizedSource(idx) \ google_groups[group_email]
               /\ batch # {}
               /\ bulk \subseteq batch)
    /\ [][(pc = "loop" /\ idx <= Len(ad_groups)
             /\ EmailOf(idx) \in DOMAIN google_groups)
           => LET missing == NormalizedSource(idx)
                                \ google_groups[EmailOf(idx)]
              IN  /\ idx \notin processed
                  /\ processed' = processed \cup {idx}
                  /\ creates' = creates
                  /\ adds' = adds
                  /\ dir' = dir
                  /\ IF missing = {}
                     THEN pc' = "loop" /\ idx' = idx + 1
                     ELSE /\ pc' = "add_member"
                          /\ idx' = idx
                          /\ group_email' = EmailOf(idx)
                          /\ batch' = missing
                          /\ bulk' = missing]_vars

\* C15 witness: a run has returned in which one group of the snapshot had all
\* its source members already (no call for it) and another had members
\* missing, which were handed to add_members_bulk.
C15_Witness ==
    /\ pc = "done"
    /\ batch # {}
    /\ \E i \in processed :
          /\ EmailOf(i) \in DOMAIN google_groups
          /\ NormalizedSource(i) # {}
          /\ NormalizedSource(i) \subseteq google_groups[EmailOf(i)]
          /\ \A m \in NormalizedSource(i) : ~BagIn(<<EmailOf(i), m>>, adds)
          /\ \A k \in 1..Len(creates) : creates[k].email # EmailOf(i)

\* C16: for a source group whose email is not in the snapshot the loop calls
\* create_group(group_email, name = key) first; add_member is issued only
\* after that call has succeeded, once for each member of the normalized
\* source set and for no other; with an empty normalized set no add call is
\* made, and a failed create_group adds no member.
C16_CreateThenAdd ==
    /\ [](/\ (pc = "add_member" /\ group_email \notin DOMAIN google_groups)
               => /\ batch = NormalizedSource(idx)
                  /\ batch # {}
                  /\ HasGroup(dir, group_email)
           /\ \A c \in BagToSet(adds) :
                 c[1] \notin DOMAIN google_groups
                    => /\ CopiesIn(c, adds) = 1
                       /\ \E i \in processed :
                             /\ EmailOf(i) = c[1]
                             /\ c[2] \in NormalizedSource(i)
                       /\ \E k \in 1..Len(creates) : creates[k].email = c[1]
           /\ \A i \in processed :
                 (idx > i /\ EmailOf(i) \notin DOMAIN google_groups)
                    => \A m \in NormalizedSource(i) :
                          CopiesIn(<<EmailOf(i), m>>, adds) = 1
           /\ (pc = "failed" /\ error.op = "create_group")
                 => (batch = {} /\ bulk = {}))
    /\ [][ /\ (pc = "loop" /\ idx <= Len(ad_groups)
                 /\ EmailOf(idx) \notin DOMAIN google_groups)
               => /\ pc' = "create_group"
                  /\ group_email' = EmailOf(idx)
                  /\ creates' = Append(creates,
                                       [email |-> EmailOf(idx),
                                        name |-> ad_groups[idx].key])
                  /\ adds' = adds
                  /\ dir' = dir
           /\ pc = "create_group"
               => /\ adds' = adds
                  /\ creates' = creates
                  /\ pc' = "add_member"
                        => /\ last'.op = "create_group"
                           /\ last'.status = "200"
                           /\ dir' = Append(dir,
                                   [email |-> group_email,
                                    name |-> ad_groups[idx].key,
                                    members |-> <<>>])
                  /\ (pc' = "loop" /\ idx' = idx + 1)
                        => /\ last'.status = "200"
                           /\ NormalizedSource(idx) = {}
                           /\ Len(dir') = Len(dir) + 1
                  /\ dir' = dir
                        => pc' \in {"create_group", "failed"}
                  /\ pc' \in {"create_group", "failed", "add_member", "loop"}
           /\ (pc # "add_member" /\ pc' # "start") => adds' = adds]_vars

\* C16 witness: a run has returned that created a group and added to it the
\* two normalized members of a source set holding an entry without "@" and an
\* entry with upper case and whitespace.
C16_Witness ==
    /\ pc = "done"
    /\ \E i \in processed :
          /\ EmailOf(i) \notin DOMAIN google_groups
          /\ ad_groups[i].members = {MemA2, MemB, MemN}
          /\ \E k \in 1..Len(creates) :
                creates[k] = [email |-> EmailOf(i), name |-> ad_groups[i].key]
          /\ CopiesIn(<<EmailOf(i), MemA>>, adds) = 1
          /\ CopiesIn(<<EmailOf(i), MemB>>, adds) = 1
          /\ ~BagIn(<<EmailOf(i), MemN>>, adds)
          /\ {MemA, MemB} \subseteq RemoteMembers(dir, EmailOf(i))

\* C17: a not-found answer to the list-members call of a group is a normal
\* empty result: get_all_groups_with_members does not fail, and the group
\* stays in the snapshot with an empty member set.
C17_NotFoundIsEmpty ==
    (last.op = "members_list" /\ last.status = "404"
        /\ last.outcome = "raise")
        => /\ pc # "failed"
           /\ last.arg \in DOMAIN groups
           /\ groups[last.arg] = {}

\* C20: every key of the snapshot is an all lower-case group email and every
\* member in it is lower-cased, whatever case the remote returns; so
\* create_group is never called for a group that the remote listed and that
\* passed the filter.
C20_CanonicalSnapshot ==
    /\ \A e \in DOMAIN groups :
          /\ \A i \in 1..Len(e) : e[i] \notin UpperChars
          /\ \A m \in groups[e] : \A i \in 1..Len(m) : m[i] \notin UpperChars
    /\ \A k \in 1..Len(creates) :
          \A j \in 1..Len(dir0) :
              ~Filtered(dir0[j], prefix)
                 => Lower(dir0[j].email) # creates[k].email

\* C18: what union_update_group_members returns tells a run in which an
\* add_member call failed from a run in which every add succeeded: a return
\* value that conveys nothing is returned only when no add has failed.
C18_ReportTellsFailures ==
    (pc = "done" /\ ReturnValue = "None") => addFailed = {}

RECURSIVE Pow(_, _)
Pow(b, n) == IF n = 0 THEN 1 ELSE b * Pow(b, n - 1)

Min(a, b) == IF a <= b THEN a ELSE b

\* C19: the sleep after the k-th consecutive matching failure (k = 1 ..
\* tries - 1) is min(base_delay * backoff^(k-1), max_delay); no sleep exceeds
\* max_delay, and no sleep follows the failure that leaves the wrapper.
C19_DelaySchedule ==
    /\ \A k \in 1..Len(sleeps) :
          /\ sleeps[k] = Min(base_delay * Pow(backoff, k - 1), max_delay)
          /\ sleeps[k] <= max_delay
    /\ tries >= 1 => Len(sleeps) <= tries - 1
    /\ w_pc = "call" => Len(sleeps) = Cardinality(MatchingFailures)
    /\ w_pc = "returned" => Len(sleeps) = Cardinality(MatchingFailures)
    /\ w_pc = "raised" =>
          Len(sleeps) = Cardinality(MatchingFailures)
                          - (IF raised.kind \in exceptions THEN 1 ELSE 0)

\* C19 witness: three sleeps of growing delay, the last one cut to max_delay.
C19_Witness ==
    /\ Len(sleeps) >= 3
    /\ sleeps[1] < sleeps[2]
    /\ sleeps[3] = max_delay
    /\ base_delay * Pow(backoff, 2) > max_delay

(* ------------------------------------------------------------------ *)
(* C21 .. C23                                                          *)
(* ------------------------------------------------------------------ *)

\* the display name n starts with the configured prefix
NameHasPrefix(n) ==
    /\ Len(prefix) <= Len(n)
    /\ \A i \in 1..Len(prefix) : n[i] = prefix[i]

\* get_all_groups_with_members has returned its snapshot to the merge loop
SnapshotReturned ==
    \/ pc \in {"loop", "create_group", "add_member", "done"}
    \/ pc = "failed" /\ error.op \in {"create_group", "add_member"}

\* C21: with a prefix configured, a remote group whose display name does not
\* start with the prefix is never a key of the snapshot and no list-members
\* call is issued for it; a group whose display name starts with the prefix
\* (and has an email) is a key of every returned snapshot.
C21_PrefixFilter ==
    prefix # <<>> =>
        /\ \A j \in 1..Len(dir) :
              ~NameHasPrefix(dir[j].name)
                 => /\ dir[j].email \notin DOMAIN groups
                    /\ dir[j].email \notin DOMAIN google_groups
                    /\ dir[j].email \notin ml_groups
                    /\ last.op = "members_list" => last.arg # dir[j].email
        /\ SnapshotReturned =>
              \A j \in 1..Len(dir0) :
                  (NameHasPrefix(dir0[j].name) /\ dir0[j].email # <<>>)
                     => dir0[j].email \in DOMAIN google_groups

\* C21 witness: with prefix "p" the remote lists a group named "pE" and a
\* group named "E"; the returned snapshot holds the first and not the second,
\* and members were listed for the first only.
C21_Witness ==
    /\ prefix = <<"p">>
    /\ FetchReturned
    /\ Len(dir0) = 2
    /\ DOMAIN google_groups = {EmailPE}
    /\ ml_groups = {EmailPE}
    /\ \E j \in 1..Len(dir0) : dir0[j].name = KeyE

\* C22: within one run create_group is called at most once per group email,
\* also when two source keys map to the same email.
C22_CreateOncePerEmail ==
    \A k1, k2 \in 1..Len(creates) :
        creates[k1].email = creates[k2].email => k1 = k2

\* C23: every add_member call of a run is for a pair (group email, member)
\* whose member is in the normalized source set of the source key in hand,
\* which maps to that email, contains "@", and is not in the snapshot's
\* member set for the group.
C23_MinimalAdds ==
    [][adds' # adds =>
         \A c \in DOMAIN adds' :
             CopiesIn(c, adds') > CopiesIn(c, adds)
                => /\ idx \in processed
                   /\ EmailOf(idx) = c[1]
                   /\ c[2] \in NormalizedSource(idx)
                   /\ ContainsAt(c[2])
                   /\ c[1] \in DOMAIN google_groups
                         => c[2] \notin google_groups[c[1]]]_vars

\* C23 witness: for a group whose snapshot lists c@x and a@x and whose source
\* members are "A@x ", b@x and n, the run has returned having called
\* add_member for b@x only.
C23_Witness ==
    /\ pc = "done"
    /\ \E i \in processed :
          /\ EmailOf(i) \in DOMAIN google_groups
          /\ google_groups[EmailOf(i)] = {MemC, MemA}
          /\ ad_groups[i].members = {MemA2, MemB, MemN}
          /\ BagIn(<<EmailOf(i), MemB>>, adds)
          /\ ~BagIn(<<EmailOf(i), MemA>>, adds)
          /\ ~BagIn(<<EmailOf(i), MemN>>, adds)

====
